---- MODULE Spec2Model ----
(***************************************************************************)
(* Model of docker/build-matrix.py: the ArrayFire Docker build matrix      *)
(* manager.  One behaviour is one run of main(): the parsed command line   *)
(* and the loaded configuration are fixed in the initial state, and the    *)
(* run then lists, builds or extracts.  Strings the program formats or     *)
(* parses are sequences of one-character strings, so that str(), split()   *)
(* and re.match() are computed character by character.  The runs modelled  *)
(* are those in which the container tool can be started and the file       *)
(* system accepts the writes: an invocation either succeeds or exits with  *)
(* a non-zero status.                                                      *)
(***************************************************************************)
EXTENDS Integers, Sequences, FiniteSets, TLC

\* ------------------------------------------------------------------------
\* Bounds of the model
\* ------------------------------------------------------------------------

\* Longest mvp_matrix of a configuration loaded by main().
MaxMatrix == 3

\* Longest mvp_matrix given to the target enumerator on its own.
MaxEntries == 2

\* Longest architecture list of a matrix entry given to the enumerator.
MaxArchs == 2

\* ------------------------------------------------------------------------
\* Characters and the strings of the program
\* ------------------------------------------------------------------------

Digits == <<"0", "1", "2", "3", "4", "5", "6", "7", "8", "9">>

DigitChars == {Digits[k] : k \in 1..Len(Digits)}

Letters ==
    {"a", "b", "c", "d", "e", "f", "g", "h", "i", "j", "k", "l", "m",
     "n", "o", "p", "q", "r", "s", "t", "u", "v", "w", "x", "y", "z"}

\* Python's \d on the characters used here.
IsDigit(c) == c \in DigitChars

\* Python's \w on the characters used here: letters, digits and underscore.
WordChars == Letters \cup DigitChars \cup {"_"}

Hyphen == <<"-">>

Debian == <<"d", "e", "b", "i", "a", "n">>

Rhel == <<"r", "h", "e", "l">>

Ubuntu == <<"u", "b", "u", "n", "t", "u">>

BackendAll == <<"a", "l", "l">>

Amd64 == <<"a", "m", "d", "6", "4">>

Arm64 == <<"a", "r", "m", "6", "4">>

Version310 == <<"3", ".", "1", "0">>

Version39 == <<"3", ".", "9">>

DefaultRegistry ==
    <<"g", "h", "c", "r", ".", "i", "o", "/",
      "d", "a", "w", "n", "m", "a", "g", "n", "e", "t">>

\* The value of args.target when --target is not given.
None == [given |-> FALSE, value |-> <<>>]

\* The value of args.target when --target s is given.
Given(s) == [given |-> TRUE, value |-> s]

\* str(n) of a natural number: its decimal digits.
RECURSIVE IntToStr(_)
IntToStr(n) ==
    IF n < 10 THEN <<Digits[n + 1]>>
    ELSE IntToStr(n \div 10) \o <<Digits[(n % 10) + 1]>>

DigitVal(c) == CHOOSE d \in 0..9 : Digits[d + 1] = c

\* int(s) of a non-empty string of decimal digits.
RECURSIVE StrToInt(_)
StrToInt(s) ==
    IF Len(s) = 1 THEN DigitVal(s[1])
    ELSE 10 * StrToInt(SubSeq(s, 1, Len(s) - 1)) + DigitVal(s[Len(s)])

\* s.split("-"): the parts between the hyphens, always at least one part.
RECURSIVE Split(_)
Split(s) ==
    LET hy == {k \in 1..Len(s) : s[k] = "-"}
    IN  IF hy = {} THEN <<s>>
        ELSE LET k == CHOOSE x \in hy : \A y \in hy : x <= y
             IN  <<SubSeq(s, 1, k - 1)>> \o Split(SubSeq(s, k + 1, Len(s)))

\* s.startswith(p)
StartsWith(s, p) == Len(s) >= Len(p) /\ SubSeq(s, 1, Len(p)) = p

\* Length of the longest prefix of s, from position from, of characters in
\* the class: what a greedy + takes first.
RunLength(s, from, class) ==
    LET stops == {k \in from..Len(s) : s[k] \notin class}
    IN  IF stops = {} THEN Len(s) - from + 1
        ELSE (CHOOSE x \in stops : \A y \in stops : x <= y) - from

\* The result of a failed re.match: None.
NoMatch == [matched |-> FALSE, group1 |-> <<>>, group2 |-> <<>>]

\* re.match(r"(\w+)(\d+)", s): anchored at the start only.  \w+ is greedy and
\* gives characters back one at a time until \d+ can match what follows;
\* \d+ then takes every digit from there.  The result is the two groups.
ReMatch(s) ==
    LET w == RunLength(s, 1, WordChars)
        ks == {k \in 1..w : k + 1 <= Len(s) /\ IsDigit(s[k + 1])}
    IN  IF ks = {} THEN NoMatch
        ELSE LET k == CHOOSE x \in ks : \A y \in ks : y <= x
                 d == RunLength(s, k + 1, DigitChars)
             IN  [matched |-> TRUE, group1 |-> SubSeq(s, 1, k),
                  group2 |-> SubSeq(s, k + 1, k + d)]

\* ------------------------------------------------------------------------
\* BuildTarget
\* ------------------------------------------------------------------------

BuildTarget(distro, version, backend, arch) ==
    [distro |-> distro, version |-> version, backend |-> backend, arch |-> arch]

\* BuildTarget.__str__
ToStr(t) ==
    t.distro \o IntToStr(t.version) \o Hyphen \o t.backend \o Hyphen \o t.arch

\* BuildTarget.get_image_name
get_image_name(t) ==
    <<"a", "r", "r", "a", "y", "f", "i", "r", "e", ":">> \o t.distro
        \o IntToStr(t.version) \o Hyphen \o t.backend \o Hyphen \o t.arch

\* BuildTarget.get_registry_image: the version is the literal of the method.
get_registry_image(t, registry) ==
    LET version == Version310
    IN  registry \o <<"/", "a", "r", "r", "a", "y", "f", "i", "r", "e", "-">>
            \o t.backend \o <<":">> \o version \o Hyphen \o t.distro
            \o IntToStr(t.version) \o Hyphen \o t.arch

TypeError == <<"TypeError">>

\* format(t, format_spec) of a BuildTarget.  The dataclass defines __str__ but
\* no __format__, so object.__format__ applies: str(t) for the empty format
\* specification, TypeError for any other.
Format(t, format_spec) ==
    IF format_spec = "" THEN ToStr(t) ELSE TypeError

\* ------------------------------------------------------------------------
\* Configurations and command lines
\* ------------------------------------------------------------------------

\* All sequences over S of length at most n.
SeqsUpTo(S, n) == UNION {[1..k -> S] : k \in 0..n}

MatrixEntry(distro, version, backend, architectures) ==
    [distro |-> distro, version |-> version, backend |-> backend,
     architectures |-> architectures]

\* Matrix entries of the configurations main() is run on: the two families
\* the build recipes know, a third family, and an entry with no architecture.
SampleEntries ==
    {MatrixEntry(Debian, 12, BackendAll, <<Amd64, Arm64>>),
     MatrixEntry(Rhel, 9, BackendAll, <<Amd64>>),
     MatrixEntry(Ubuntu, 22, BackendAll, <<Arm64>>),
     MatrixEntry(Debian, 12, BackendAll, <<>>)}

\* Matrix entries given to the enumerator on its own: every architecture list
\* up to the bound, duplicates included.
EnumEntries ==
    {MatrixEntry(d[1], d[2], BackendAll, archs) :
        d \in {<<Debian, 12>>, <<Rhel, 9>>},
        archs \in SeqsUpTo({Amd64, Arm64}, MaxArchs)}

ProductVersions == {Version310, Version39}

\* BuildMatrix.__init__: what the run keeps of the loaded document.
BuildMatrix(arrayfire_version, mvp_matrix) ==
    [arrayfire_version |-> arrayfire_version, mvp_matrix |-> mvp_matrix]

Configs ==
    {BuildMatrix(v, m) : v \in ProductVersions, m \in SeqsUpTo(SampleEntries, MaxMatrix)}

EnumConfigs ==
    {BuildMatrix(Version310, m) : m \in SeqsUpTo(EnumEntries, MaxEntries)}

\* Values of --target the runs are given, besides leaving it out.
TargetStrings ==
    {<<>>,
     ToStr(BuildTarget(Debian, 12, BackendAll, Amd64)),
     ToStr(BuildTarget(Debian, 9, BackendAll, Amd64)),
     ToStr(BuildTarget(Rhel, 9, BackendAll, Arm64)),
     ToStr(BuildTarget(Ubuntu, 22, BackendAll, Amd64)),
     Debian \o <<"1", "2">>,
     Debian \o <<"1", "2">> \o Hyphen \o BackendAll,
     Debian \o <<"1", "2">> \o Hyphen \o BackendAll \o Hyphen \o Amd64 \o Hyphen \o <<"x">>,
     <<"1", "2">> \o Hyphen \o BackendAll \o Hyphen \o Amd64,
     <<"1">> \o Hyphen \o BackendAll \o Hyphen \o Amd64,
     Debian \o <<"1", "2", "x">> \o Hyphen \o BackendAll \o Hyphen \o Amd64,
     <<"d", "e", "b", "_", "1">> \o Hyphen \o BackendAll \o Hyphen \o Amd64,
     Debian \o Hyphen \o BackendAll \o Hyphen \o Amd64,
     Hyphen \o BackendAll \o Hyphen \o Amd64}

Actions == {"build", "list", "extract"}

OutputDir == <<"o", "u", "t", "p", "u", "t">>

PackagesDir == <<"p", "a", "c", "k", "a", "g", "e", "s">>

\* The parsed command line: argparse's namespace, with --config, --output-dir
\* and --registry at their defaults.
ArgSpace ==
    [action : Actions, mvp : BOOLEAN,
     target : {None} \cup {Given(s) : s \in TargetStrings},
     output_dir : {OutputDir}, registry : {DefaultRegistry},
     push : BOOLEAN, buildx : BOOLEAN]

\* ------------------------------------------------------------------------
\* BuildMatrix.get_mvp_targets
\* ------------------------------------------------------------------------

\* The inner loop: one target per architecture of the entry, appended in order.
RECURSIVE ArchLoop(_, _, _)
ArchLoop(item, archs, acc) ==
    IF archs = <<>> THEN acc
    ELSE ArchLoop(item, Tail(archs),
                  Append(acc, BuildTarget(item.distro, item.version,
                                          item.backend, Head(archs))))

\* The outer loop over the entries of mvp_matrix.
RECURSIVE ItemLoop(_, _)
ItemLoop(items, acc) ==
    IF items = <<>> THEN acc
    ELSE ItemLoop(Tail(items), ArchLoop(Head(items), Head(items).architectures, acc))

\* A target list that drops a target equal to an earlier one.
RECURSIVE Dedup(_)
Dedup(ts) ==
    IF ts = <<>> THEN <<>>
    ELSE LET front == Dedup(SubSeq(ts, 1, Len(ts) - 1))
             last == ts[Len(ts)]
         IN  IF \E k \in 1..Len(front) : front[k] = last THEN front
             ELSE Append(front, last)

get_mvp_targets_dedup(self) == Dedup(ItemLoop(self.mvp_matrix, <<>>))

get_mvp_targets(self) == ItemLoop(self.mvp_matrix, <<>>)

\* BuildMatrix.get_dockerfile: the recipe of a distribution, or ValueError.
get_dockerfile(distro) ==
    IF StartsWith(distro, Debian) THEN "Dockerfile.debian"
    ELSE IF StartsWith(distro, Rhel) THEN "Dockerfile.rhel"
    ELSE "ValueError"

\* ------------------------------------------------------------------------
\* State of a run
\* ------------------------------------------------------------------------

VARIABLES
    args,         \* the parsed command line
    matrix,       \* the BuildMatrix main() constructed
    pc,           \* where main() is
    targets,      \* main()'s targets list
    i,            \* position of the running for loop in targets
    results,      \* the build loop's dict, as (key, value) pairs in insertion order
    invocations,  \* the subprocess.run calls made so far, in order
    dirs,         \* directories the run has created
    copied,       \* files the run has copied
    ret,          \* what the last extract_packages call returned, <<>> before one
    out,          \* the target lines the list action has printed
    summary,      \* the printed build summary
    exit,         \* the exit status of the process, <<>> while it runs
    raised        \* the exception that ended the run, if any

vars ==
    <<args, matrix, pc, targets, i, results, invocations, dirs, copied, ret,
      out, summary, exit, raised>>

Fresh ==
    /\ targets = <<>>
    /\ i = 1
    /\ results = <<>>
    /\ invocations = <<>>
    /\ dirs = {}
    /\ copied = {}
    /\ ret = <<>>
    /\ out = <<>>
    /\ summary = <<>>
    /\ exit = <<>>
    /\ raised = "none"

\* main() after parse_args() and BuildMatrix(args.config).
Init ==
    /\ args \in ArgSpace
    /\ matrix \in Configs
    /\ pc = "main"
    /\ Fresh

\* ------------------------------------------------------------------------
\* main(): the list action
\* ------------------------------------------------------------------------

\* Lines 300-306: both arms of the --mvp conditional call get_mvp_targets.
ListTargets ==
    /\ pc = "main"
    /\ args.action = "list"
    /\ targets' = (IF args.mvp THEN get_mvp_targets(matrix) ELSE get_mvp_targets(matrix))
    /\ i' = 1
    /\ pc' = "list_loop"
    /\ UNCHANGED <<args, matrix, results, invocations, dirs, copied, ret, out,
                   summary, exit, raised>>

\* Lines 307-311: one iteration of the loop.  The f-string formats the target
\* itself with the format specification "<40"; an exception nobody catches
\* ends the process with status 1.
ListPrint ==
    /\ pc = "list_loop"
    /\ i <= Len(targets)
    /\ LET target == targets[i]
           image == IF args.buildx THEN get_registry_image(target, args.registry)
                    ELSE get_image_name(target)
           text == Format(target, "<40")
       IN  IF text = TypeError
           THEN /\ raised' = "TypeError"
                /\ exit' = <<1>>
                /\ pc' = "done"
                /\ UNCHANGED <<i, out>>
           ELSE /\ out' = Append(out, [target |-> text, image |-> image])
                /\ i' = i + 1
                /\ UNCHANGED <<pc, exit, raised>>
    /\ UNCHANGED <<args, matrix, targets, results, invocations, dirs, copied,
                   ret, summary>>

\* Line 312.
ListReturn ==
    /\ pc = "list_loop"
    /\ i > Len(targets)
    /\ exit' = <<0>>
    /\ pc' = "done"
    /\ UNCHANGED <<args, matrix, targets, i, results, invocations, dirs, copied,
                   ret, out, summary, raised>>

\* ------------------------------------------------------------------------
\* main(): the targets of build and extract
\* ------------------------------------------------------------------------

\* "if args.target": None and the empty string are both false.
Truthy(s) == s.given /\ s.value # <<>>

\* Lines 317-337: the target a --target string names, or the format error.
ParseTargetArg(s) ==
    LET parts == Split(s)
    IN  IF Len(parts) # 3 THEN [ok |-> FALSE, target |-> <<>>]
        ELSE LET match == ReMatch(parts[1])
             IN  IF ~match.matched THEN [ok |-> FALSE, target |-> <<>>]
                 ELSE [ok |-> TRUE,
                       target |-> BuildTarget(match.group1, StrToInt(match.group2),
                                              parts[2], parts[3])]

\* Lines 315-337.
ParseTarget ==
    /\ pc = "main"
    /\ args.action # "list"
    /\ Truthy(args.target)
    /\ LET parsed == ParseTargetArg(args.target.value)
       IN  IF parsed.ok
           THEN /\ targets' = <<parsed.target>>
                /\ pc' = "dispatch"
                /\ UNCHANGED exit
           ELSE /\ exit' = <<1>>
                /\ pc' = "done"
                /\ UNCHANGED targets
    /\ UNCHANGED <<args, matrix, i, results, invocations, dirs, copied, ret, out,
                   summary, raised>>

\* Lines 338-339.
MatrixTargets ==
    /\ pc = "main"
    /\ args.action # "list"
    /\ ~Truthy(args.target)
    /\ targets' = get_mvp_targets(matrix)
    /\ pc' = "dispatch"
    /\ UNCHANGED <<args, matrix, i, results, invocations, dirs, copied, ret, out,
                   summary, exit, raised>>

\* ------------------------------------------------------------------------
\* main(): the build action
\* ------------------------------------------------------------------------

\* results[key] = value on the dict: an existing key keeps its place and
\* has its value replaced, a new key is added at the end.
DictSet(d, key, value) ==
    IF \E j \in 1..Len(d) : d[j].key = key
    THEN [j \in 1..Len(d) |->
            IF d[j].key = key THEN [key |-> key, value |-> value] ELSE d[j]]
    ELSE Append(d, [key |-> key, value |-> value])

\* Lines 103-109 and 162-168: the recipe and the name of its version argument.
Recipe(target) ==
    IF target.distro = Debian
    THEN [dockerfile |-> "Dockerfile.debian", version_arg |-> "DEBIAN_VERSION"]
    ELSE [dockerfile |-> "Dockerfile.rhel", version_arg |-> "RHEL_VERSION"]

\* Lines 342-343.
BuildBegin ==
    /\ pc = "dispatch"
    /\ args.action = "build"
    /\ results' = <<>>
    /\ i' = 1
    /\ pc' = "build_loop"
    /\ UNCHANGED <<args, matrix, targets, invocations, dirs, copied, ret, out,
                   summary, exit, raised>>

\* build_local up to subprocess.run (lines 103-143): the output directory is
\* made, the command is built and the tool is started; the call blocks.
BuildLocalStart ==
    /\ pc = "build_loop"
    /\ i <= Len(targets)
    /\ ~args.buildx
    /\ LET target == targets[i]
           output_path == <<args.output_dir, ToStr(target)>>
           cmd == [tool |-> "docker build",
                   dockerfile |-> Recipe(target).dockerfile,
                   tag |-> get_image_name(target),
                   version_arg |-> Recipe(target).version_arg,
                   version |-> target.version,
                   backend |-> target.backend,
                   arch |-> target.arch,
                   arrayfire_version |-> matrix.arrayfire_version,
                   output |-> output_path,
                   platform |-> <<>>,
                   push |-> FALSE]
       IN  /\ dirs' = dirs \cup {<<args.output_dir>>, output_path}
           /\ invocations' =
                 Append(invocations, [idx |-> i, cmd |-> cmd, status |-> "running"])
    /\ pc' = "wait"
    /\ UNCHANGED <<args, matrix, targets, i, results, copied, ret, out, summary,
                   exit, raised>>

\* build_with_buildx up to subprocess.run (lines 162-203).
BuildxStart ==
    /\ pc = "build_loop"
    /\ i <= Len(targets)
    /\ args.buildx
    /\ LET target == targets[i]
           cmd == [tool |-> "docker buildx build",
                   dockerfile |-> Recipe(target).dockerfile,
                   tag |-> get_registry_image(target, args.registry),
                   version_arg |-> Recipe(target).version_arg,
                   version |-> target.version,
                   backend |-> target.backend,
                   arch |-> target.arch,
                   arrayfire_version |-> matrix.arrayfire_version,
                   output |-> <<>>,
                   platform |-> <<"l", "i", "n", "u", "x", "/">> \o target.arch,
                   push |-> args.push]
       IN  invocations' =
               Append(invocations, [idx |-> i, cmd |-> cmd, status |-> "running"])
    /\ pc' = "wait"
    /\ UNCHANGED <<args, matrix, targets, i, results, dirs, copied, ret, out,
                   summary, exit, raised>>

\* A build loop that gives up at the first failed target.
BuildCompletedStopOnFailure ==
    /\ pc = "wait"
    /\ \E success \in BOOLEAN :
          /\ invocations' =
                [invocations EXCEPT ![Len(invocations)].status =
                    IF success THEN "ok" ELSE "failed"]
          /\ results' = DictSet(results, ToStr(targets[i]), success)
          /\ i' = IF success THEN i + 1 ELSE Len(targets) + 1
    /\ pc' = "build_loop"
    /\ UNCHANGED <<args, matrix, targets, dirs, copied, ret, out, summary, exit,
                   raised>>

\* subprocess.run returns or raises CalledProcessError (lines 143-149 and
\* 203-213); the function returns the outcome and the loop stores it under
\* str(target) (line 351) and moves on.
BuildCompleted ==
    /\ pc = "wait"
    /\ \E success \in BOOLEAN :
          /\ invocations' =
                [invocations EXCEPT ![Len(invocations)].status =
                    IF success THEN "ok" ELSE "failed"]
          /\ results' = DictSet(results, ToStr(targets[i]), success)
    /\ i' = i + 1
    /\ pc' = "build_loop"
    /\ UNCHANGED <<args, matrix, targets, dirs, copied, ret, out, summary, exit,
                   raised>>

\* Lines 353-364: the summary counts the entries of the dict.
BuildSummary ==
    /\ pc = "build_loop"
    /\ i > Len(targets)
    /\ LET passed == Cardinality({j \in 1..Len(results) : results[j].value})
           total == Len(results)
       IN  /\ summary' = <<passed, total>>
           /\ exit' = IF passed = total THEN <<0>> ELSE <<1>>
    /\ pc' = "done"
    /\ UNCHANGED <<args, matrix, targets, i, results, invocations, dirs, copied,
                   ret, out, raised>>

\* ------------------------------------------------------------------------
\* main(): the extract action
\* ------------------------------------------------------------------------

DebFile == <<"a", "f", ".", "d", "e", "b">>

RpmFile == <<"a", "f", ".", "r", "p", "m">>

\* Names of the files a build output directory may hold.
TreeFiles == {DebFile, RpmFile}

\* s.endswith(p): what the glob "**/*.deb" asks of a file name.
EndsWith(s, p) == Len(s) >= Len(p) /\ SubSeq(s, Len(s) - Len(p) + 1, Len(s)) = p

\* Lines 226-229: the files of the tree the family's pattern matches.
GlobPackages(target, tree) ==
    IF target.distro = Debian
    THEN {f \in tree : EndsWith(f, <<".", "d", "e", "b">>)}
    ELSE {f \in tree : EndsWith(f, <<".", "r", "p", "m">>)}

\* One iteration of the loop of lines 368-370: extract_packages (lines
\* 215-242) on the target's output directory, whose files are whatever an
\* earlier build left there.
ExtractPackages ==
    /\ pc = "dispatch"
    /\ args.action = "extract"
    /\ i <= Len(targets)
    /\ \E tree \in SUBSET TreeFiles :
          LET target == targets[i]
              dest_path == <<PackagesDir>>
              packages == GlobPackages(target, tree)
          IN  /\ dirs' = dirs \cup {dest_path}
              /\ IF packages = {}
                 THEN /\ ret' = <<FALSE>>
                      /\ UNCHANGED copied
                 ELSE /\ copied' = copied \cup
                            {<<PackagesDir, ToStr(target) \o <<"_">> \o pkg>> :
                                pkg \in packages}
                      /\ ret' = <<TRUE>>
    /\ i' = i + 1
    /\ UNCHANGED <<args, matrix, pc, targets, results, invocations, out, summary,
                   exit, raised>>

\* Line 371.
ExtractReturn ==
    /\ pc = "dispatch"
    /\ args.action = "extract"
    /\ i > Len(targets)
    /\ exit' = <<0>>
    /\ pc' = "done"
    /\ UNCHANGED <<args, matrix, targets, i, results, invocations, dirs, copied,
                   ret, out, summary, raised>>

\* ------------------------------------------------------------------------
\* Specifications
\* ------------------------------------------------------------------------

Next ==
    \/ ListTargets
    \/ ListPrint
    \/ ListReturn
    \/ ParseTarget
    \/ MatrixTargets
    \/ BuildBegin
    \/ BuildLocalStart
    \/ BuildxStart
    \/ BuildCompleted
    \/ BuildSummary
    \/ ExtractPackages
    \/ ExtractReturn

\* Runs of main().
Spec == Init /\ [][Next]_vars

\* The enumerator on its own: a loaded configuration whose targets nobody has
\* asked for yet.
InitEnum ==
    /\ args \in [action : {"build"}, mvp : BOOLEAN, target : {None},
                 output_dir : {OutputDir}, registry : {DefaultRegistry},
                 push : {FALSE}, buildx : {FALSE}]
    /\ matrix \in EnumConfigs
    /\ pc = "enum"
    /\ Fresh

\* A call of get_mvp_targets.
EnumerateTargets ==
    /\ pc = "enum"
    /\ targets' = get_mvp_targets(matrix)
    /\ pc' = "enumerated"
    /\ UNCHANGED <<args, matrix, i, results, invocations, dirs, copied, ret, out,
                   summary, exit, raised>>

NextEnum == EnumerateTargets

SpecEnum == InitEnum /\ [][NextEnum]_vars

\* ------------------------------------------------------------------------
\* Properties
\* ------------------------------------------------------------------------

\* Number of architectures the first n entries of a matrix list.
RECURSIVE SumArchs(_, _)
SumArchs(m, n) ==
    IF n = 0 THEN 0 ELSE SumArchs(m, n - 1) + Len(m[n].architectures)

\* C1: the enumerator returns exactly the sum of k_i targets, the target of
\* architecture a of entry e at position k_1 + ... + k_(e-1) + a, nothing
\* dropped for being equal to an earlier one.
C1_EnumeratorExact ==
    pc = "enumerated" =>
        LET m == matrix.mvp_matrix
        IN  /\ Len(targets) = SumArchs(m, Len(m))
            /\ \A e \in 1..Len(m) : \A a \in 1..Len(m[e].architectures) :
                  targets[SumArchs(m, e - 1) + a] =
                      BuildTarget(m[e].distro, m[e].version, m[e].backend,
                                  m[e].architectures[a])

\* A matrix whose two entries are equal, each with two different
\* architectures, has been enumerated into four targets.
C1_Witness ==
    /\ pc = "enumerated"
    /\ Len(matrix.mvp_matrix) = 2
    /\ matrix.mvp_matrix[1] = matrix.mvp_matrix[2]
    /\ Len(matrix.mvp_matrix[1].architectures) = 2
    /\ matrix.mvp_matrix[1].architectures[1] # matrix.mvp_matrix[1].architectures[2]
    /\ Len(targets) = 4
    /\ targets[1] = targets[3]

\* Targets whose distro is letters only, with a positive version.
RoundTripTargets ==
    {BuildTarget(d, v, BackendAll, a) :
        d \in {Debian, Rhel, Ubuntu}, v \in {9, 12, 22}, a \in {Amd64, Arm64}}

\* C2: once --target str(t) has been parsed, the target list is t alone; in
\* particular "debian12-all-amd64" gives (debian, 12, all, amd64).
C2_ParseRoundTrip ==
    (pc = "dispatch" /\ Truthy(args.target)) =>
        \A t \in RoundTripTargets : args.target.value = ToStr(t) => targets = <<t>>

\* C3: a build run that reached its summary exits 0 exactly when every
\* invocation it made succeeded, and 1 otherwise.
C3_ExitZeroIffAllSucceeded ==
    summary # <<>> =>
        /\ exit \in {<<0>>, <<1>>}
        /\ exit = <<0>> <=>
              \A j \in 1..Len(invocations) : invocations[j].status = "ok"

\* C4: no invocation is made and no output directory exists for a target
\* whose distribution has no recipe.
C4_UnknownFamilyNotInvoked ==
    /\ \A j \in 1..Len(invocations) :
          get_dockerfile(targets[invocations[j].idx].distro) # "ValueError"
    /\ \A k \in 1..Len(targets) :
          get_dockerfile(targets[k].distro) = "ValueError" =>
              <<args.output_dir, ToStr(targets[k])>> \notin dirs

\* C5: a run given a --target that does not split into three parts invokes
\* nothing, creates and copies nothing, and ends with exit code 1.
C5_MalformedTargetExitsOne ==
    (args.target.given /\ Len(Split(args.target.value)) # 3) =>
        /\ invocations = <<>>
        /\ dirs = {}
        /\ copied = {}
        /\ pc = "done" => exit = <<1>>

\* One or more letters followed by one or more digits and nothing else.
LettersThenDigits(s) ==
    \E k \in 1..(Len(s) - 1) :
        /\ \A x \in 1..k : s[x] \in Letters
        /\ \A x \in (k + 1)..Len(s) : IsDigit(s[x])

\* C6: when the first of the three parts of --target is not letters then
\* digits, parsing ends the run with exit code 1 and no target.
C6_BadFirstPartFails ==
    (/\ args.action # "list"
     /\ Truthy(args.target)
     /\ Len(Split(args.target.value)) = 3
     /\ ~LettersThenDigits(Split(args.target.value)[1])
     /\ pc # "main") =>
        /\ pc = "done"
        /\ exit = <<1>>
        /\ targets = <<>>

\* C7: a finished list run has exit code 0, raised nothing, printed one line
\* per enumerated target with its image, and touched nothing else.
C7_ListPrintsEveryTarget ==
    (args.action = "list" /\ pc = "done") =>
        LET expected == get_mvp_targets(matrix)
        IN  /\ exit = <<0>>
            /\ raised = "none"
            /\ Len(out) = Len(expected)
            /\ \A k \in 1..Len(out) :
                  out[k].image =
                      IF args.buildx
                      THEN get_registry_image(expected[k], args.registry)
                      ELSE get_image_name(expected[k])
            /\ invocations = <<>>
            /\ dirs = {}
            /\ copied = {}

\* C8: an extract_packages call that returns false leaves the directories and
\* the copied files as they were before the call.
C8_NoMatchLeavesDestination ==
    [][(/\ pc = "dispatch"
        /\ args.action = "extract"
        /\ i' = i + 1
        /\ ret' = <<FALSE>>) => (dirs' = dirs /\ copied' = copied)]_vars

\* The registry path of a target for a product version.
RegistryPath(registry, product_version, t) ==
    registry \o <<"/", "a", "r", "r", "a", "y", "f", "i", "r", "e", "-">>
        \o t.backend \o <<":">> \o product_version \o Hyphen \o t.distro
        \o IntToStr(t.version) \o Hyphen \o t.arch

\* C9: the tag of every buildx invocation carries the product version of the
\* loaded configuration.
C9_RegistryImageUsesConfigVersion ==
    \A j \in 1..Len(invocations) :
        invocations[j].cmd.tool = "docker buildx build" =>
            invocations[j].cmd.tag =
                RegistryPath(args.registry, matrix.arrayfire_version,
                             targets[invocations[j].idx])

\* C10: invocation j is the one of list position j; only the last one can be
\* running; between iterations the loop has made one invocation per position
\* passed; and at the summary there is one finished invocation per position.
C10_OneInvocationPerPosition ==
    /\ \A j \in 1..Len(invocations) :
          /\ invocations[j].idx = j
          /\ invocations[j].cmd.arch = targets[j].arch
          /\ invocations[j].cmd.version = targets[j].version
          /\ j < Len(invocations) => invocations[j].status # "running"
    /\ pc = "build_loop" =>
          /\ Len(invocations) = i - 1
          /\ \A j \in 1..Len(invocations) : invocations[j].status # "running"
    /\ pc = "wait" =>
          /\ Len(invocations) = i
          /\ invocations[i].status = "running"
    /\ summary # <<>> =>
          /\ Len(invocations) = Len(targets)
          /\ \A j \in 1..Len(invocations) : invocations[j].status # "running"

\* A summary printed after three or more targets, the first of which failed
\* and the second of which succeeded.
C10_Witness ==
    /\ summary # <<>>
    /\ Len(targets) >= 3
    /\ Len(invocations) = Len(targets)
    /\ invocations[1].status = "failed"
    /\ invocations[2].status = "ok"

====
